---- MODULE Spec2Model ----
\* Query-history repository (pkg/services/queryhistory/database.go) as a state
\* machine over the two tables query_history and query_history_star.  Every
\* call is a sequence of store statements; a call that runs in a transaction
\* buffers its writes until commit, a call in a plain session writes through.
\* The dashboard panel validator (checkDashboardAndPanel) and the handler it
\* gates are a second, independent machine over the variable dash.
EXTENDS Integers, Sequences, FiniteSets, TLC

\* ---------------------------------------------------------------- bounds
MaxId == 2          \* rows ever inserted into query_history

\* ---------------------------------------------------------------- inputs
Procs == {1, 2}                 \* request-handling goroutines
SeqProcs == {1}                 \* the goroutine used when calls do not overlap
Callers == { [UserId |-> 1, OrgId |-> 1],
             [UserId |-> 1, OrgId |-> 2],
             [UserId |-> 2, OrgId |-> 1] }      \* models.SignedInUser
UserIds == {c.UserId : c \in Callers}
UIDs == {"a", "b"}              \* values util.GenerateShortUID can return
Comments == {"", "c"}
CreateCmds == { [DatasourceUID |-> "ds1", Queries |-> <<"A">>] }
UnixTimes == {1}                \* values time.Now().Unix() takes during a run
StoreFails == BOOLEAN           \* whether a store statement fails (connectivity)

\* ---------------------------------------------------------------- errors
nil == "nil"
ErrQueryNotFound == "ErrQueryNotFound"
ErrQueryAlreadyStarred == "ErrQueryAlreadyStarred"
ErrStarredQueryNotFound == "ErrStarredQueryNotFound"
ErrNoDatasource == "no selected data source for query history search"
ErrStore == "store failure"                 \* opaque infrastructure error
ErrUniqueViolation == "unique constraint violation"   \* raw driver error
TaxonomyErrors == {ErrQueryNotFound, ErrQueryAlreadyStarred, ErrStarredQueryNotFound}

\* ---------------------------------------------------------------- values
\* The zero value of the QueryHistory struct.
NoRow == [id |-> 0, uid |-> "", org_id |-> 0, datasource_uid |-> "",
          created_by |-> 0, created_at |-> 0, comment |-> "", queries |-> <<>>]

\* The zero value QueryHistoryDTO{}.
ZeroDTO == [UID |-> "", DatasourceUID |-> "", CreatedBy |-> 0, CreatedAt |-> 0,
            Comment |-> "", Queries |-> <<>>, Starred |-> FALSE]

\* The DTO literal built at the end of create/patch/star/unstar.
MakeDTO(qh, starred) ==
    [UID |-> qh.uid, DatasourceUID |-> qh.datasource_uid, CreatedBy |-> qh.created_by,
     CreatedAt |-> qh.created_at, Comment |-> qh.comment, Queries |-> qh.queries,
     Starred |-> starred]

StarKeys == UserIds \X UIDs     \* (user_id, query_uid)
NoStars == [k \in StarKeys |-> 0]

\* A transaction's buffered writes.
EmptyTx == [sIns |-> {}, sDel |-> {}, qIns |-> {}, qUpd |-> {}, qDel |-> {}]

NoFilter == [DatasourceUIDs |-> {}, SearchString |-> <<>>, OnlyStarred |-> FALSE,
             Sort |-> "", Page |-> 0, Limit |-> 0]

NoCall == [op |-> "none", user |-> [UserId |-> 0, OrgId |-> 0], UID |-> "",
           Comment |-> "", filter |-> NoFilter, row |-> NoRow,
           queryHistory |-> NoRow, isStarred |-> FALSE, queryID |-> 0,
           queries |-> <<>>, err |-> nil, injected |-> "", after |-> "none",
           preQ |-> {}, preS |-> NoStars, prevS |-> NoStars]

NoRet == [op |-> "none", user |-> [UserId |-> 0, OrgId |-> 0], UID |-> "",
          Comment |-> "", filter |-> NoFilter, dto |-> ZeroDTO, dtos |-> <<>>,
          id |-> 0, err |-> nil, injected |-> "", after |-> "none",
          preQ |-> {}, preS |-> NoStars, prevS |-> NoStars]

VARIABLES query_history,        \* committed rows of table query_history
          query_history_star,   \* committed rows of query_history_star: key -> row count
          nextID,               \* autoincrement of query_history.id
          clock,                \* time.Now().Unix()
          pc,                   \* per goroutine: position inside its call
          call,                 \* per goroutine: arguments and locals of its call
          tx,                   \* per goroutine: buffered writes of its transaction
          ret,                  \* per goroutine: what its last call returned
          dash                  \* the panel-scoped query request being handled

vars == <<query_history, query_history_star, nextID, clock, pc, call, tx, ret, dash>>

\* No panel-scoped query request.
NoDash == [pc |-> "none", enabled |-> FALSE, orgID |-> 0, dashboardUID |-> "",
           panelID |-> 0, answer |-> [err |-> "nil", hasData |-> FALSE, panels |-> <<>>],
           lookups |-> 0, validated |-> FALSE, err |-> "nil", engine |-> 0,
           response |-> [code |-> 0, error |-> "nil"]]

\* ---------------------------------------------------------------- store gateway
\* deleteQuery and the others opened with WithDbSession: no transaction.
SessionKind_NoTransaction(op) == "session"

\* createQuery and searchQueries run in WithDbSession (each statement commits
\* on its own); the other four run in WithTransactionalDbSession.
SessionKind(op) ==
    IF op \in {"createQuery", "searchQueries"} THEN "session" ELSE "transaction"

\* The tables with a write set applied.
FlushQ(Q, w) ==
    {r \in Q : r.id \notin (w.qDel \cup {u.id : u \in w.qUpd})} \cup w.qUpd \cup w.qIns

FlushS(S, w) ==
    [k \in StarKeys |-> (IF k \in w.sDel THEN 0 ELSE S[k]) + (IF k \in w.sIns THEN 1 ELSE 0)]

\* What goroutine p's session reads: committed rows and its own buffered writes.
ViewQ(p) == FlushQ(query_history, tx[p])
ViewS(p) == FlushS(query_history_star, tx[p])

\* A row or key written by another open transaction: the statement waits.
QLocked(p, ids) ==
    \E q \in Procs \ {p} : ids \cap (tx[q].qDel \cup {u.id : u \in tx[q].qUpd}) # {}

SLocked(p, k) ==
    \E q \in Procs \ {p} : k \in tx[q].sIns \cup tx[q].sDel

\* The filter without org_id.
OwnRows_NoOrg(Q, user, UID) ==
    {r \in Q : r.created_by = user.UserId /\ r.uid = UID}

\* Where("org_id = ? AND created_by = ? AND uid = ?", user.OrgId, user.UserId, UID)
OwnRows(Q, user, UID) ==
    {r \in Q : r.org_id = user.OrgId /\ r.created_by = user.UserId /\ r.uid = UID}

\* session.Insert(&queryHistoryStar): unique on (user_id, query_uid).
StarInsertResult(S, k) == IF S[k] >= 1 THEN ErrUniqueViolation ELSE nil

\* session.Insert(&queryHistory): the schema's unique uid.
QueryInsertResult(Q, row) ==
    IF \E r \in Q : r.uid = row.uid THEN ErrUniqueViolation ELSE nil

\* xorm's Update(bean): only the bean's non-zero fields are written.
XormUpdate(old, bean) ==
    [f \in DOMAIN old |-> IF bean[f] = NoRow[f] THEN old[f] ELSE bean[f]]

\* The effect of one statement of goroutine p that leaves write set w behind.
Write(p, w) ==
    IF SessionKind(call[p].op) = "transaction"
    THEN /\ tx' = [tx EXCEPT ![p] = w]
         /\ UNCHANGED <<query_history, query_history_star>>
    ELSE /\ query_history' = FlushQ(query_history, w)
         /\ query_history_star' = FlushS(query_history_star, w)
         /\ tx' = [tx EXCEPT ![p] = EmptyTx]

\* History kept for the properties: the goroutine's previous call, when it
\* succeeded for the same caller and UID (prevS: the stars before that call);
\* preQ, preS: the tables when this call started; injected: the statement of
\* this call that failed last, if any.
After(p, user, UID) ==
    IF ret[p].err = nil /\ ret[p].user = user /\ ret[p].UID = UID
       /\ ret[p].op \in {"starQuery", "unstarQuery", "deleteQuery"}
    THEN ret[p].op ELSE "none"

NewCall(p, op, user, UID) ==
    [NoCall EXCEPT !.op = op, !.user = user, !.UID = UID,
                   !.after = After(p, user, UID),
                   !.prevS = IF After(p, user, UID) = "none" THEN NoStars ELSE ret[p].preS,
                   !.preQ = query_history, !.preS = query_history_star]

\* A statement of an open call: the locals it leaves and where the call goes on.
Goto(p, next, locals) ==
    /\ pc' = [pc EXCEPT ![p] = next]
    /\ call' = [call EXCEPT ![p] = locals]
    /\ UNCHANGED <<nextID, clock, ret, dash>>

\* A call starts: arguments bound, nothing executed yet.
Enter(p, first, locals) ==
    /\ pc[p] = "idle"
    /\ pc' = [pc EXCEPT ![p] = first]
    /\ call' = [call EXCEPT ![p] = locals]
    /\ ret' = [ret EXCEPT ![p] = NoRet]
    /\ UNCHANGED <<query_history, query_history_star, nextID, tx, dash>>

\* ---------------------------------------------------------------- createQuery
createQuery_Call(p) ==
    \E user \in Callers, cmd \in CreateCmds, uid \in UIDs,
       now \in {t \in UnixTimes : t >= clock} :
        /\ nextID <= MaxId
        /\ clock' = now
        /\ Enter(p, "createQuery.insert",
                 [NewCall(p, "createQuery", user, "") EXCEPT
                    !.queryHistory = [NoRow EXCEPT !.org_id = user.OrgId, !.uid = uid,
                                                   !.queries = cmd.Queries,
                                                   !.datasource_uid = cmd.DatasourceUID,
                                                   !.created_by = user.UserId,
                                                   !.created_at = now, !.comment = ""]])

createQuery_Insert(p) ==
    /\ pc[p] = "createQuery.insert"
    /\ \E fail \in StoreFails :
        LET row == [call[p].queryHistory EXCEPT !.id = nextID]
            err == IF fail THEN ErrStore ELSE QueryInsertResult(ViewQ(p), row)
        IN /\ Write(p, IF err = nil THEN [tx[p] EXCEPT !.qIns = @ \cup {row}] ELSE tx[p])
           /\ nextID' = IF err = nil THEN nextID + 1 ELSE nextID
           /\ pc' = [pc EXCEPT ![p] = "end"]
           /\ call' = [call EXCEPT ![p].err = err, ![p].injected = IF fail THEN pc[p] ELSE @,
                                   ![p].queryHistory = IF err = nil THEN row ELSE @]
           /\ UNCHANGED <<clock, ret, dash>>

\* The DTO built before the UID is assigned.
createQuery_Result_NoUID(c, err) ==
    IF err # nil THEN [dto |-> ZeroDTO, dtos |-> <<>>, id |-> 0]
    ELSE [dto |-> MakeDTO([c.queryHistory EXCEPT !.uid = ""], FALSE), dtos |-> <<>>, id |-> 0]

createQuery_Result(c, err) ==
    IF err # nil THEN [dto |-> ZeroDTO, dtos |-> <<>>, id |-> 0]
    ELSE [dto |-> MakeDTO(c.queryHistory, FALSE), dtos |-> <<>>, id |-> 0]

\* ---------------------------------------------------------------- deleteQuery
deleteQuery_Call(p) ==
    \E user \in Callers, UID \in UIDs :
        /\ Enter(p, "deleteQuery.unstar", NewCall(p, "deleteQuery", user, UID))
        /\ UNCHANGED clock

\* "Try to unstar the query first": an error is logged and dropped.
deleteQuery_Unstar(p) ==
    /\ pc[p] = "deleteQuery.unstar"
    /\ LET k == <<call[p].user.UserId, call[p].UID>> IN
       \E fail \in StoreFails :
        /\ fail \/ ~SLocked(p, k)
        /\ Write(p, IF fail \/ ViewS(p)[k] = 0 THEN tx[p]
                    ELSE [tx[p] EXCEPT !.sDel = @ \cup {k}, !.sIns = @ \ {k}])
        /\ Goto(p, "deleteQuery.delete", [call[p] EXCEPT !.injected = IF fail THEN pc[p] ELSE @])

deleteQuery_DeleteErr(id, err) ==
    IF err # nil THEN err ELSE IF id = 0 THEN ErrQueryNotFound ELSE nil

deleteQuery_Delete(p) ==
    /\ pc[p] = "deleteQuery.delete"
    /\ LET rows == OwnRows(ViewQ(p), call[p].user, call[p].UID)
           gone == {r.id : r \in rows}
       IN \E fail \in StoreFails :
        LET id == IF fail THEN 0 ELSE Cardinality(rows)
            err == deleteQuery_DeleteErr(id, IF fail THEN ErrStore ELSE nil)
        IN /\ fail \/ ~QLocked(p, gone)
           /\ Write(p, IF fail THEN tx[p]
                       ELSE [tx[p] EXCEPT !.qDel = @ \cup gone,
                                          !.qUpd = {u \in @ : u.id \notin gone},
                                          !.qIns = {u \in @ : u.id \notin gone}])
           /\ Goto(p, "end", [call[p] EXCEPT !.err = err, !.injected = IF fail THEN pc[p] ELSE @,
                                             !.queryID = IF err = nil THEN id ELSE @])

deleteQuery_Result(c, err) == [dto |-> ZeroDTO, dtos |-> <<>>, id |-> c.queryID]

\* ---------------------------------------------------------------- the row lookup
\* The lookup without the !exists check.
GetErr_NoExistsCheck(exists, err) == IF err # nil THEN err ELSE nil

\* exists, err := session...Where(...).Get(&queryHistory), then the two checks.
GetErr(exists, err) ==
    IF err # nil THEN err ELSE IF ~exists THEN ErrQueryNotFound ELSE nil

GetOwnRow(p, next) ==
    LET rows == OwnRows(ViewQ(p), call[p].user, call[p].UID) IN
    \E fail \in StoreFails :
      \E r \in (IF fail \/ rows = {} THEN {NoRow} ELSE rows) :
        LET err == GetErr(~fail /\ rows # {}, IF fail THEN ErrStore ELSE nil) IN
        /\ Goto(p, IF err = nil THEN next ELSE "end",
                [call[p] EXCEPT !.queryHistory = r, !.err = err, !.injected = IF fail THEN pc[p] ELSE @])
        /\ UNCHANGED <<query_history, query_history_star, tx>>

\* ---------------------------------------------------------------- patchQueryComment
patchQueryComment_Call(p) ==
    \E user \in Callers, UID \in UIDs, comment \in Comments :
        /\ Enter(p, "patchQueryComment.get",
                 [NewCall(p, "patchQueryComment", user, UID) EXCEPT !.Comment = comment])
        /\ UNCHANGED clock

patchQueryComment_Get(p) ==
    /\ pc[p] = "patchQueryComment.get"
    /\ GetOwnRow(p, "patchQueryComment.update")

\* queryHistory.Comment = cmd.Comment; session.ID(queryHistory.ID).Update(queryHistory)
patchQueryComment_Update(p) ==
    /\ pc[p] = "patchQueryComment.update"
    /\ LET bean == [call[p].queryHistory EXCEPT !.comment = call[p].Comment]
           rows == {r \in ViewQ(p) : r.id = bean.id}
       IN \E fail \in StoreFails :
        /\ fail \/ ~QLocked(p, {bean.id})
        /\ Write(p, IF fail THEN tx[p]
                    ELSE [tx[p] EXCEPT !.qUpd = {u \in @ : u.id # bean.id}
                                               \cup {XormUpdate(r, bean) : r \in rows}])
        /\ Goto(p, IF fail THEN "end" ELSE "patchQueryComment.exist",
                [call[p] EXCEPT !.queryHistory = bean, !.injected = IF fail THEN pc[p] ELSE @,
                                !.err = IF fail THEN ErrStore ELSE nil])

patchQueryComment_Exist(p) ==
    /\ pc[p] = "patchQueryComment.exist"
    /\ LET k == <<call[p].user.UserId, call[p].UID>> IN
       \E fail \in StoreFails :
        /\ Goto(p, "end",
                [call[p] EXCEPT !.isStarred = IF fail THEN @ ELSE ViewS(p)[k] > 0,
                                !.injected = IF fail THEN pc[p] ELSE @,
                                !.err = IF fail THEN ErrStore ELSE nil])
        /\ UNCHANGED <<query_history, query_history_star, tx>>

patchQueryComment_Result(c, err) ==
    IF err # nil THEN [dto |-> ZeroDTO, dtos |-> <<>>, id |-> 0]
    ELSE [dto |-> MakeDTO(c.queryHistory, c.isStarred), dtos |-> <<>>, id |-> 0]

\* ---------------------------------------------------------------- starQuery
starQuery_Call(p) ==
    \E user \in Callers, UID \in UIDs :
        /\ Enter(p, "starQuery.get", NewCall(p, "starQuery", user, UID))
        /\ UNCHANGED clock

starQuery_Get(p) ==
    /\ pc[p] = "starQuery.get"
    /\ GetOwnRow(p, "starQuery.insert")

\* A unique violation taken for success.
starQuery_InsertErr_Silent(err) ==
    IF err = ErrUniqueViolation THEN nil ELSE err

\* The insert's error returned as it is, unclassified.
starQuery_InsertErr_Raw(err) == err

starQuery_InsertErr(err) ==
    IF err = nil THEN nil
    ELSE IF err = ErrUniqueViolation THEN ErrQueryAlreadyStarred ELSE err

starQuery_Insert(p) ==
    /\ pc[p] = "starQuery.insert"
    /\ LET k == <<call[p].user.UserId, call[p].UID>> IN
       \E fail \in StoreFails :
        LET res == IF fail THEN ErrStore ELSE StarInsertResult(ViewS(p), k)
            err == starQuery_InsertErr(res)
        IN /\ fail \/ ~SLocked(p, k)
           /\ Write(p, IF res = nil THEN [tx[p] EXCEPT !.sIns = @ \cup {k}] ELSE tx[p])
           /\ Goto(p, "end", [call[p] EXCEPT !.err = err, !.injected = IF fail THEN pc[p] ELSE @,
                                             !.isStarred = IF err = nil THEN TRUE ELSE @])

starQuery_Result(c, err) ==
    IF err # nil THEN [dto |-> ZeroDTO, dtos |-> <<>>, id |-> 0]
    ELSE [dto |-> MakeDTO(c.queryHistory, c.isStarred), dtos |-> <<>>, id |-> 0]

\* ---------------------------------------------------------------- unstarQuery
unstarQuery_Call(p) ==
    \E user \in Callers, UID \in UIDs :
        /\ Enter(p, "unstarQuery.get", NewCall(p, "unstarQuery", user, UID))
        /\ UNCHANGED clock

unstarQuery_Get(p) ==
    /\ pc[p] = "unstarQuery.get"
    /\ GetOwnRow(p, "unstarQuery.delete")

\* The affected-rows test inverted.
unstarQuery_DeleteErr_Inverted(id, err) ==
    IF id # 0 THEN ErrStarredQueryNotFound ELSE IF err # nil THEN err ELSE nil

\* id == 0 is tested before err.
unstarQuery_DeleteErr(id, err) ==
    IF id = 0 THEN ErrStarredQueryNotFound ELSE IF err # nil THEN err ELSE nil

unstarQuery_Delete(p) ==
    /\ pc[p] = "unstarQuery.delete"
    /\ LET k == <<call[p].user.UserId, call[p].UID>> IN
       \E fail \in StoreFails :
        LET id == IF fail THEN 0 ELSE ViewS(p)[k]
            err == unstarQuery_DeleteErr(id, IF fail THEN ErrStore ELSE nil)
        IN /\ fail \/ ~SLocked(p, k)
           /\ Write(p, IF fail \/ id = 0 THEN tx[p]
                       ELSE [tx[p] EXCEPT !.sDel = @ \cup {k}, !.sIns = @ \ {k}])
           /\ Goto(p, "end", [call[p] EXCEPT !.err = err, !.injected = IF fail THEN pc[p] ELSE @,
                                             !.isStarred = IF err = nil THEN FALSE ELSE @])

unstarQuery_Result(c, err) ==
    IF err # nil THEN [dto |-> ZeroDTO, dtos |-> <<>>, id |-> 0]
    ELSE [dto |-> MakeDTO(c.queryHistory, c.isStarred), dtos |-> <<>>, id |-> 0]

\* ---------------------------------------------------------------- searchQueries
DatasourceUIDSets == {{}, {"ds1"}}
SearchStrings == {<<>>}
Sorts == {""}
Paging == {[Page |-> 0, Limit |-> 0]}
SearchFilters ==
    {[DatasourceUIDs |-> d, SearchString |-> s, OnlyStarred |-> o, Sort |-> t,
      Page |-> g.Page, Limit |-> g.Limit] :
        d \in DatasourceUIDSets, s \in SearchStrings, o \in BOOLEAN, t \in Sorts,
        g \in Paging}

\* The defaults filled in before the statement is built.
Normalize(query) ==
    [query EXCEPT !.Page = IF @ <= 0 THEN 1 ELSE @,
                  !.Limit = IF @ <= 0 THEN 100 ELSE @,
                  !.Sort = IF @ = "" THEN "time-desc" ELSE @]

Lower(ch) == CASE ch = "A" -> "a" [] ch = "B" -> "b" [] OTHER -> ch

\* queries LIKE '%' + SearchString + '%' (case-insensitive)
Like(text, sub) ==
    \E i \in 0..(Len(text) - Len(sub)) :
        \A j \in 1..Len(sub) : Lower(text[i + j]) = Lower(sub[j])

\* The LEFT JOIN taken whatever OnlyStarred says.
JoinRows_LeftAlways(Q, S, user, query) ==
    LET matching == {r \in Q : /\ r.org_id = user.OrgId
                               /\ r.created_by = user.UserId
                               /\ Like(r.queries, query.SearchString)
                               /\ r.datasource_uid \in query.DatasourceUIDs}
    IN {[q |-> r, star_user |-> 0, n |-> 0,
         starred |-> \E u \in UserIds : S[<<u, r.uid>>] > 0] : r \in matching}

\* FROM query_history [INNER|LEFT] JOIN query_history_star
\*   ON query_history_star.query_uid = query_history.uid  WHERE ...
\* One joined row per star row of that uid, whoever's star it is.
JoinRows(Q, S, user, query) ==
    LET matching == {r \in Q : /\ r.org_id = user.OrgId
                               /\ r.created_by = user.UserId
                               /\ Like(r.queries, query.SearchString)
                               /\ r.datasource_uid \in query.DatasourceUIDs}
        joined == {[q |-> r, star_user |-> k[1], n |-> i, starred |-> TRUE] :
                      r \in matching, k \in StarKeys, i \in 1..MaxId + 1}
        inner == {j \in joined : <<j.star_user, j.q.uid>> \in StarKeys
                                 /\ j.n <= S[<<j.star_user, j.q.uid>>]}
        outer == {[q |-> r, star_user |-> 0, n |-> 0, starred |-> FALSE] :
                      r \in {m \in matching : \A u \in UserIds : S[<<u, m.uid>>] = 0}}
    IN IF query.OnlyStarred THEN inner ELSE inner \cup outer

\* ORDER BY created_at ASC|DESC: any order of the rows the sort key allows.
Orderings(rows, sort) ==
    LET n == Cardinality(rows) IN
    {f \in [1..n -> rows] :
        /\ \A i, j \in 1..n : i # j => f[i] # f[j]
        /\ \A i, j \in 1..n : i < j =>
              IF sort = "time-asc" THEN f[i].q.created_at <= f[j].q.created_at
              ELSE f[i].q.created_at >= f[j].q.created_at}

\* LIMIT ? OFFSET ?, offset := query.Limit * (query.Page - 1)
Slice(ord, query) ==
    LET offset == query.Limit * (query.Page - 1)
        last == IF offset + query.Limit < Len(ord) THEN offset + query.Limit ELSE Len(ord)
    IN [i \in 1..(IF last > offset THEN last - offset ELSE 0) |->
            MakeDTO(ord[offset + i].q, ord[offset + i].starred)]

searchQueries_Call(p) ==
    \E user \in Callers, query \in SearchFilters :
        /\ Enter(p, IF Cardinality(query.DatasourceUIDs) = 0 THEN "end"
                    ELSE "searchQueries.find",
                 [NewCall(p, "searchQueries", user, "") EXCEPT
                    !.filter = query,
                    !.err = IF Cardinality(query.DatasourceUIDs) = 0
                            THEN ErrNoDatasource ELSE nil])
        /\ UNCHANGED clock

searchQueries_Find(p) ==
    /\ pc[p] = "searchQueries.find"
    /\ LET query == Normalize(call[p].filter)
           rows == JoinRows(ViewQ(p), ViewS(p), call[p].user, query)
       IN \E fail \in StoreFails :
          \E ord \in (IF fail THEN {<<>>} ELSE Orderings(rows, query.Sort)) :
            /\ Goto(p, "end",
                    [call[p] EXCEPT !.queries = IF fail THEN <<>> ELSE Slice(ord, query),
                                    !.injected = IF fail THEN pc[p] ELSE @,
                                    !.err = IF fail THEN ErrStore ELSE nil])
            /\ UNCHANGED <<query_history, query_history_star, tx>>

searchQueries_Result(c, err) ==
    IF err # nil THEN [dto |-> ZeroDTO, dtos |-> <<>>, id |-> 0]
    ELSE [dto |-> ZeroDTO, dtos |-> c.queries, id |-> 0]

\* ---------------------------------------------------------------- leaving a call
Result(c, err) ==
    CASE c.op = "createQuery" -> createQuery_Result(c, err)
      [] c.op = "searchQueries" -> searchQueries_Result(c, err)
      [] c.op = "deleteQuery" -> deleteQuery_Result(c, err)
      [] c.op = "patchQueryComment" -> patchQueryComment_Result(c, err)
      [] c.op = "starQuery" -> starQuery_Result(c, err)
      [] c.op = "unstarQuery" -> unstarQuery_Result(c, err)

Leave(p, err, injected) ==
    LET c == call[p]
        r == Result(c, err)
    IN /\ pc' = [pc EXCEPT ![p] = "idle"]
       /\ call' = [call EXCEPT ![p] = NoCall]
       /\ ret' = [ret EXCEPT ![p] =
                    [NoRet EXCEPT !.op = c.op, !.user = c.user, !.UID = c.UID,
                                  !.Comment = c.Comment, !.filter = c.filter,
                                  !.dto = r.dto, !.dtos = r.dtos, !.id = r.id,
                                  !.err = err, !.injected = injected,
                                  !.after = c.after, !.preQ = c.preQ,
                                  !.preS = c.preS, !.prevS = c.prevS]]
       /\ UNCHANGED <<nextID, clock, dash>>

\* WithDbSession: the callback's error is the call's error.
Return(p) ==
    /\ pc[p] = "end"
    /\ SessionKind(call[p].op) = "session"
    /\ Leave(p, call[p].err, call[p].injected)
    /\ UNCHANGED <<query_history, query_history_star, tx>>

\* WithTransactionalDbSession, callback returned nil: commit (which can fail).
Commit(p) ==
    /\ pc[p] = "end"
    /\ SessionKind(call[p].op) = "transaction"
    /\ call[p].err = nil
    /\ \E fail \in StoreFails :
        /\ query_history' = IF fail THEN query_history ELSE FlushQ(query_history, tx[p])
        /\ query_history_star' =
              IF fail THEN query_history_star ELSE FlushS(query_history_star, tx[p])
        /\ tx' = [tx EXCEPT ![p] = EmptyTx]
        /\ Leave(p, IF fail THEN ErrStore ELSE nil,
                 IF fail THEN "commit" ELSE call[p].injected)

\* WithTransactionalDbSession, callback returned an error: roll back.
Rollback(p) ==
    /\ pc[p] = "end"
    /\ SessionKind(call[p].op) = "transaction"
    /\ call[p].err # nil
    /\ tx' = [tx EXCEPT ![p] = EmptyTx]
    /\ Leave(p, call[p].err, call[p].injected)
    /\ UNCHANGED <<query_history, query_history_star>>

\* ---------------------------------------------------------------- specification
Init ==
    /\ query_history = {}
    /\ query_history_star = NoStars
    /\ nextID = 1
    /\ clock = 1
    /\ pc = [p \in Procs |-> "idle"]
    /\ call = [p \in Procs |-> NoCall]
    /\ tx = [p \in Procs |-> EmptyTx]
    /\ ret = [p \in Procs |-> NoRet]
    /\ dash = NoDash

Step(p) ==
    \/ createQuery_Call(p) \/ createQuery_Insert(p)
    \/ searchQueries_Call(p) \/ searchQueries_Find(p)
    \/ deleteQuery_Call(p) \/ deleteQuery_Unstar(p) \/ deleteQuery_Delete(p)
    \/ patchQueryComment_Call(p) \/ patchQueryComment_Get(p)
    \/ patchQueryComment_Update(p) \/ patchQueryComment_Exist(p)
    \/ starQuery_Call(p) \/ starQuery_Get(p) \/ starQuery_Insert(p)
    \/ unstarQuery_Call(p) \/ unstarQuery_Get(p) \/ unstarQuery_Delete(p)
    \/ Return(p) \/ Commit(p) \/ Rollback(p)

\* Calls one after another, each complete before the next starts.
Next == \E p \in SeqProcs : Step(p)

Spec == Init /\ [][Next]_vars

TypeOK ==
    /\ \A r \in query_history : r.uid \in UIDs /\ r.id \in 1..MaxId
    /\ \A k \in StarKeys : query_history_star[k] \in 0..1

\* ---------------------------------------------------------------- overlapping calls
\* A store holding one query, as createQuery (and patchQueryComment) leave it.
StoredRows ==
    {[id |-> 1, uid |-> u, org_id |-> c.OrgId, datasource_uid |-> d.DatasourceUID,
      created_by |-> c.UserId, created_at |-> 1, comment |-> m, queries |-> d.Queries] :
        u \in UIDs, c \in Callers, d \in CreateCmds, m \in Comments}

InitRace ==
    /\ query_history \in {{row} : row \in StoredRows}
    /\ query_history_star = NoStars
    /\ nextID = 2
    /\ clock = 1
    /\ pc = [p \in Procs |-> "idle"]
    /\ call = [p \in Procs |-> NoCall]
    /\ tx = [p \in Procs |-> EmptyTx]
    /\ ret = [p \in Procs |-> NoRet]
    /\ dash = NoDash

\* Each goroutine calls starQuery once, as the query's owner, for its uid.
starQuery_CallOwner(p) ==
    \E q \in query_history :
        /\ ret[p].op = "none"
        /\ Enter(p, "starQuery.get",
                 NewCall(p, "starQuery",
                         [UserId |-> q.created_by, OrgId |-> q.org_id], q.uid))
        /\ UNCHANGED clock

NextRace ==
    \E p \in Procs :
        \/ starQuery_CallOwner(p) \/ starQuery_Get(p) \/ starQuery_Insert(p)
        \/ Commit(p) \/ Rollback(p)

SpecRace == InitRace /\ [][NextRace]_vars

\* ---------------------------------------------------------------- properties
MutatingOps == {"patchQueryComment", "starQuery", "unstarQuery", "deleteQuery"}
StarKeyOf(r) == <<r.user.UserId, r.UID>>
Stars(uid) == {k \in StarKeys : k[2] = uid /\ query_history_star[k] > 0}

\* ---------------------------------------------------------------- dashboard panel validator
ErrDashboardOrPanelIdentifierNotSet == "ErrDashboardOrPanelIdentifierNotSet"
ErrDashboardNotFound == "ErrDashboardNotFound"
ErrDashboardPanelNotFound == "ErrDashboardPanelNotFound"
ErrDashboardCorrupt == "ErrDashboardCorrupt"

\* The requests: identifiers of the route and the ValidatedQueries toggle.
OrgIds == {1}
DashboardUIDs == {"", "1"}
PanelIds == {-1, 0, 2, 3}

\* What the store answers to GetDashboardQuery{OrgId, Uid}: an error, a
\* dashboard without document, or a dashboard whose document lists panels.
PanelArrays == {<<>>, <<2>>, <<3, 2>>}
DashboardAnswers ==
    {[err |-> ErrDashboardNotFound, hasData |-> FALSE, panels |-> <<>>],
     [err |-> nil, hasData |-> FALSE, panels |-> <<>>]}
        \cup {[err |-> nil, hasData |-> TRUE, panels |-> a] : a \in PanelArrays}

\* The identifier check that takes a panel id of 0 for set.
IdentifierErr_ZeroPanelSet(dashboardUID, panelID) ==
    IF dashboardUID = "" \/ panelID < 0 THEN ErrDashboardOrPanelIdentifierNotSet ELSE nil

\* Rule 1: both identifiers must be set.
IdentifierErr(dashboardUID, panelID) ==
    IF dashboardUID = "" \/ panelID <= 0 THEN ErrDashboardOrPanelIdentifierNotSet ELSE nil

\* Rule 3: a dashboard row without document is corrupt.
DocumentErr(answer) == IF ~answer.hasData THEN ErrDashboardCorrupt ELSE nil

\* Rule 4: the panels array is searched for an entry with the panel id.
RECURSIVE PanelFound(_, _, _)
PanelFound(panels, i, panelID) ==
    IF i > Len(panels) THEN FALSE
    ELSE IF panels[i] = panelID THEN TRUE
    ELSE PanelFound(panels, i + 1, panelID)

PanelErr(answer, panelID) ==
    IF PanelFound(answer.panels, 1, panelID) THEN nil ELSE ErrDashboardPanelNotFound

InitDash ==
    /\ query_history = {}
    /\ query_history_star = NoStars
    /\ nextID = 1
    /\ clock = 1
    /\ pc = [p \in Procs |-> "idle"]
    /\ call = [p \in Procs |-> NoCall]
    /\ tx = [p \in Procs |-> EmptyTx]
    /\ ret = [p \in Procs |-> NoRet]
    /\ \E enabled \in BOOLEAN, orgID \in OrgIds, dashboardUID \in DashboardUIDs,
          panelID \in PanelIds, answer \in DashboardAnswers :
            dash = [NoDash EXCEPT !.pc = "route", !.enabled = enabled, !.orgID = orgID,
                                  !.dashboardUID = dashboardUID, !.panelID = panelID,
                                  !.answer = answer]

DashStep(d) ==
    /\ dash' = d
    /\ UNCHANGED <<query_history, query_history_star, nextID, clock, pc, call, tx, ret>>

\* The route exists only with the ValidatedQueries toggle.
QueryMetricsFromDashboard_Route ==
    /\ dash.pc = "route"
    /\ DashStep(IF dash.enabled THEN [dash EXCEPT !.pc = "check.identifiers"]
                ELSE [dash EXCEPT !.pc = "done", !.response = [code |-> 404, error |-> nil]])

\* A validator that asks the store before it looks at the identifiers.
checkDashboardAndPanel_Identifiers_AfterFetch ==
    /\ dash.pc = "check.identifiers"
    /\ LET err == IdentifierErr(dash.dashboardUID, dash.panelID) IN
       DashStep(IF err # nil
                THEN [dash EXCEPT !.pc = "respond", !.err = err, !.validated = TRUE,
                                  !.lookups = @ + 1]
                ELSE [dash EXCEPT !.pc = "check.fetch"])

checkDashboardAndPanel_Identifiers ==
    /\ dash.pc = "check.identifiers"
    /\ LET err == IdentifierErr(dash.dashboardUID, dash.panelID) IN
       DashStep(IF err # nil
                THEN [dash EXCEPT !.pc = "respond", !.err = err, !.validated = TRUE]
                ELSE [dash EXCEPT !.pc = "check.fetch"])

\* Rule 2: the store's error is returned as it is.
checkDashboardAndPanel_Fetch ==
    /\ dash.pc = "check.fetch"
    /\ DashStep(IF dash.answer.err # nil
                THEN [dash EXCEPT !.pc = "respond", !.err = dash.answer.err,
                                  !.validated = TRUE, !.lookups = @ + 1]
                ELSE [dash EXCEPT !.pc = "check.document", !.lookups = @ + 1])

checkDashboardAndPanel_Document ==
    /\ dash.pc = "check.document"
    /\ LET err == DocumentErr(dash.answer) IN
       DashStep(IF err # nil
                THEN [dash EXCEPT !.pc = "respond", !.err = err, !.validated = TRUE]
                ELSE [dash EXCEPT !.pc = "check.panels"])

checkDashboardAndPanel_Panels ==
    /\ dash.pc = "check.panels"
    /\ DashStep([dash EXCEPT !.pc = "respond", !.validated = TRUE,
                             !.err = PanelErr(dash.answer, dash.panelID)])

\* A handler that forwards the request whatever the validator said.
QueryMetricsFromDashboard_Respond_Ungated ==
    /\ dash.pc = "respond"
    /\ DashStep([dash EXCEPT !.pc = "engine"])

\* The validator's error is the response; without error the query goes on.
QueryMetricsFromDashboard_Respond ==
    /\ dash.pc = "respond"
    /\ DashStep(IF dash.err # nil
                THEN [dash EXCEPT !.pc = "done",
                                  !.response = [code |-> 400, error |-> dash.err]]
                ELSE [dash EXCEPT !.pc = "engine"])

QueryEngine_QueryData ==
    /\ dash.pc = "engine"
    /\ DashStep([dash EXCEPT !.pc = "done", !.engine = @ + 1,
                             !.response = [code |-> 200, error |-> nil]])

NextDash ==
    \/ QueryMetricsFromDashboard_Route
    \/ checkDashboardAndPanel_Identifiers
    \/ checkDashboardAndPanel_Fetch
    \/ checkDashboardAndPanel_Document
    \/ checkDashboardAndPanel_Panels
    \/ QueryMetricsFromDashboard_Respond
    \/ QueryEngine_QueryData

SpecDash == InitDash /\ [][NextDash]_vars

\* ---------------------------------------------------------------- paging
\* Two searches against one store state.  The store holds the queries of one
\* user, created at equal or at different times, starred or not by that user.
SearchTimes == {1, 2}
SearchUser == [UserId |-> 1, OrgId |-> 1]
SearchSorts == {"", "time-asc", "time-desc"}
SearchPages == {0, 1, 2}
SearchLimits == {0, 1}

SearchRow(id, uid, t) ==
    [id |-> id, uid |-> uid, org_id |-> SearchUser.OrgId, datasource_uid |-> "ds1",
     created_by |-> SearchUser.UserId, created_at |-> t, comment |-> "",
     queries |-> <<"A">>]

SearchTables ==
    {{SearchRow(1, "a", t)} : t \in SearchTimes}
        \cup {{SearchRow(1, "a", t[1]), SearchRow(2, "b", t[2])} :
                 t \in {x \in SearchTimes \X SearchTimes : x[1] <= x[2]}}

SearchStars ==
    {S \in [StarKeys -> 0..1] :
        \A k \in StarKeys : S[k] > 0 => k[1] = SearchUser.UserId}

PagedFilters ==
    {[DatasourceUIDs |-> {"ds1"}, SearchString |-> <<>>, OnlyStarred |-> o,
      Sort |-> t, Page |-> g, Limit |-> l] :
        o \in BOOLEAN, t \in SearchSorts, g \in SearchPages, l \in SearchLimits}

InitSearch ==
    /\ query_history \in SearchTables
    /\ query_history_star \in
          {S \in SearchStars : \A k \in StarKeys :
                S[k] > 0 => \E q \in query_history : q.uid = k[2]}
    /\ nextID = MaxId + 1
    /\ clock = 2
    /\ pc = [p \in Procs |-> "idle"]
    /\ call = [p \in Procs |-> NoCall]
    /\ tx = [p \in Procs |-> EmptyTx]
    /\ ret = [p \in Procs |-> NoRet]
    /\ dash = NoDash

\* Each goroutine searches once; the two filters differ in Page at most.
searchQueries_CallPage(p) ==
    \E query \in PagedFilters :
        /\ ret[p].op = "none"
        /\ \A o \in Procs \ {p} :
              /\ call[o].op = "searchQueries"
                    => [call[o].filter EXCEPT !.Page = query.Page] = query
              /\ ret[o].op = "searchQueries"
                    => [ret[o].filter EXCEPT !.Page = query.Page] = query
        /\ Enter(p, "searchQueries.find",
                 [NewCall(p, "searchQueries", SearchUser, "") EXCEPT !.filter = query])
        /\ UNCHANGED clock

NextSearch ==
    \E p \in Procs :
        \/ searchQueries_CallPage(p) \/ searchQueries_Find(p) \/ Return(p)

SpecSearch == InitSearch /\ [][NextSearch]_vars

\* ---------------------------------------------------------------- star against delete
\* One goroutine calls deleteQuery once, as the query's owner, for its uid.
deleteQuery_CallOwner(p) ==
    \E q \in query_history :
        /\ ret[p].op = "none"
        /\ \A o \in Procs : call[o].op # "deleteQuery" /\ ret[o].op # "deleteQuery"
        /\ Enter(p, "deleteQuery.unstar",
                 NewCall(p, "deleteQuery",
                         [UserId |-> q.created_by, OrgId |-> q.org_id], q.uid))
        /\ UNCHANGED clock

\* The other goroutine calls starQuery once, as the owner, for the same uid.
starQuery_CallOnce(p) ==
    /\ \A o \in Procs : call[o].op # "starQuery" /\ ret[o].op # "starQuery"
    /\ starQuery_CallOwner(p)

NextStarDelete ==
    \E p \in Procs :
        \/ starQuery_CallOnce(p) \/ starQuery_Get(p) \/ starQuery_Insert(p)
        \/ deleteQuery_CallOwner(p) \/ deleteQuery_Unstar(p) \/ deleteQuery_Delete(p)
        \/ Commit(p) \/ Rollback(p)

SpecStarDelete == InitRace /\ [][NextStarDelete]_vars

\* C1: two overlapping starQuery calls of one user for one uid, no star row
\* before and no store failure: one returns Starred = true, the other
\* QueryAlreadyStarred, and the star table never holds two rows for a pair.
C1_OneStarWins ==
    /\ \A k \in StarKeys : query_history_star[k] <= 1
    /\ (\A p \in Procs : ret[p].op = "starQuery" /\ ret[p].injected = "")
          => \E p \in Procs : \A q \in Procs \ {p} :
                /\ ret[p].err = nil /\ ret[p].dto.Starred
                /\ ret[q].err = ErrQueryAlreadyStarred
                /\ query_history_star[StarKeyOf(ret[p])] = 1

\* The loser started before the winner committed: the calls did overlap.
C1_Witness ==
    \E p \in Procs : \A q \in Procs \ {p} :
        /\ ret[p].op = "starQuery" /\ ret[p].err = nil /\ ret[p].dto.Starred
        /\ ret[q].op = "starQuery" /\ ret[q].err = ErrQueryAlreadyStarred
        /\ ret[q].preS[StarKeyOf(ret[q])] = 0
        /\ StarKeyOf(ret[p]) = StarKeyOf(ret[q])

\* C2: every star row's QueryUID refers to an existing query_history row, in
\* every state, also after a deleteQuery whose star removal failed.
C2_NoDanglingStar ==
    \A k \in StarKeys :
        query_history_star[k] > 0 => \E q \in query_history : q.uid = k[2]

\* C3: a patchQueryComment, starQuery, unstarQuery or deleteQuery that returns
\* an error leaves both tables exactly as they were when it was called.
C3_ErrorLeavesTablesUnchanged ==
    \A p \in Procs :
        (ret[p].op \in MutatingOps /\ ret[p].err # nil)
            => /\ query_history = ret[p].preQ
               /\ query_history_star = ret[p].preS

\* The caller's user id matches a star row, the caller's org does not match the
\* query row: deleteQuery returned QueryNotFound and the star row is still there.
C3_Witness ==
    \E p \in Procs :
        /\ ret[p].op = "deleteQuery"
        /\ ret[p].err = ErrQueryNotFound
        /\ ret[p].preS[StarKeyOf(ret[p])] = 1
        /\ query_history_star[StarKeyOf(ret[p])] = 1
        /\ \E q \in query_history : q.uid = ret[p].UID /\ q.org_id # ret[p].user.OrgId

\* A row with this uid exists and is not the caller's.
Foreign(Q, user, UID) ==
    \E q \in Q : q.uid = UID /\ <<q.org_id, q.created_by>> # <<user.OrgId, user.UserId>>

\* C4: on a query of another (org, user), patchQueryComment, starQuery,
\* unstarQuery and deleteQuery never succeed and return QueryNotFound when the
\* store answers; searchQueries returns no DTO of such a query.
C4_ScopedToOwner ==
    \A p \in Procs :
        LET r == ret[p] IN
        /\ (r.op \in MutatingOps /\ Foreign(r.preQ, r.user, r.UID))
              => /\ r.err # nil
                 /\ r.injected = "" => r.err = ErrQueryNotFound
        /\ (r.op = "searchQueries" /\ r.err = nil)
              => \A i \in 1..Len(r.dtos) : \A q \in r.preQ :
                    q.uid = r.dtos[i].UID
                        => q.org_id = r.user.OrgId /\ q.created_by = r.user.UserId

\* unstarQuery by the star's user from another org: QueryNotFound, star kept.
C4_Witness ==
    \E p \in Procs :
        /\ ret[p].op = "unstarQuery"
        /\ ret[p].err = ErrQueryNotFound
        /\ ret[p].injected = ""
        /\ Foreign(ret[p].preQ, ret[p].user, ret[p].UID)
        /\ query_history_star[StarKeyOf(ret[p])] = 1

\* C5: a call in which a store statement failed (other than the star removal
\* inside deleteQuery, which is only logged) returns the store's error.
C5_StoreErrorPropagated ==
    \A p \in Procs :
        ret[p].injected \notin {"", "deleteQuery.unstar"} => ret[p].err = ErrStore

\* C6: after a successful deleteQuery(user, uid) no query row and no star row
\* with that uid exists, and deleting again returns QueryNotFound.
C6_DeleteRemovesQueryAndStars ==
    \A p \in Procs :
        LET r == ret[p] IN
        /\ (r.op = "deleteQuery" /\ r.err = nil)
              => /\ ~\E q \in query_history : q.uid = r.UID
                 /\ Stars(r.UID) = {}
        /\ (r.op = "deleteQuery" /\ r.after = "deleteQuery" /\ r.injected = "")
              => r.err = ErrQueryNotFound

\* C7: starQuery on a query of the caller that the caller has already starred
\* (the previous call, or any earlier one not undone) returns
\* QueryAlreadyStarred and leaves exactly one star row for the pair; a
\* successful starQuery returns Starred = true with exactly one row.
C7_SecondStarAlreadyStarred ==
    \A p \in Procs :
        LET r == ret[p]
            k == StarKeyOf(r)
        IN r.op = "starQuery" =>
            /\ r.err = nil => r.dto.Starred /\ query_history_star[k] = 1
            /\ ( /\ r.injected = ""
                 /\ \/ r.after = "starQuery"
                    \/ r.preS[k] >= 1 /\ OwnRows(r.preQ, r.user, r.UID) # {} )
                  => /\ r.err = ErrQueryAlreadyStarred
                     /\ query_history_star[k] = 1
                     /\ query_history_star = r.preS

C7_Witness ==
    \E p \in Procs :
        /\ ret[p].op = "starQuery"
        /\ ret[p].after = "starQuery"
        /\ ret[p].err = ErrQueryAlreadyStarred
        /\ query_history_star[StarKeyOf(ret[p])] = 1

\* C8: on a query of the caller with no star row starQuery succeeds and adds
\* the one row; an unstarQuery right after it succeeds with Starred = false
\* and puts the star table back as it was before the starQuery.
C8_StarThenUnstar ==
    \A p \in Procs :
        LET r == ret[p]
            k == StarKeyOf(r)
        IN /\ ( /\ r.op = "starQuery" /\ r.injected = ""
                /\ OwnRows(r.preQ, r.user, r.UID) # {} /\ r.preS[k] = 0 )
                 => /\ r.err = nil /\ r.dto.Starred /\ r.dto.UID = r.UID
                    /\ query_history_star = [r.preS EXCEPT ![k] = 1]
           /\ (r.op = "unstarQuery" /\ r.after = "starQuery" /\ r.injected = "")
                 => /\ r.err = nil /\ ~r.dto.Starred /\ r.dto.UID = r.UID
                    /\ query_history_star[k] = 0
                    /\ query_history_star = r.prevS

C8_Witness ==
    \E p \in Procs :
        /\ ret[p].op = "unstarQuery"
        /\ ret[p].after = "starQuery"
        /\ ret[p].err = nil
        /\ ret[p].preS[StarKeyOf(ret[p])] = 1
        /\ query_history_star = ret[p].prevS

\* C9: when the store answers, unstarQuery returns QueryNotFound if the caller
\* has no query row with that uid (whether or not a star row exists), and
\* StarredQueryNotFound if the query is the caller's and no star row exists.
C9_UnstarErrors ==
    \A p \in Procs :
        LET r == ret[p]
            own == OwnRows(r.preQ, r.user, r.UID)
        IN (r.op = "unstarQuery" /\ r.injected = "") =>
            /\ own = {} => r.err = ErrQueryNotFound
            /\ (own # {} /\ r.preS[StarKeyOf(r)] = 0) => r.err = ErrStarredQueryNotFound

\* Already unstarred: the previous call unstarred it, this one finds no star.
C9_Witness ==
    \E p \in Procs :
        /\ ret[p].op = "unstarQuery"
        /\ ret[p].after = "unstarQuery"
        /\ ret[p].err = ErrStarredQueryNotFound

\* C10: the Starred of every DTO of a successful call equals the existence of
\* the star row (caller's UserID, DTO.UID) in the tables the call left.
C10_StarredIsRowExistence ==
    \A p \in Procs :
        LET r == ret[p]
            has(uid) == query_history_star[<<r.user.UserId, uid>>] >= 1
        IN r.err = nil =>
            /\ r.op \in {"createQuery", "unstarQuery"}
                  => ~r.dto.Starred /\ ~has(r.dto.UID)
            /\ r.op = "starQuery" => r.dto.Starred /\ has(r.dto.UID)
            /\ r.op = "patchQueryComment" => (r.dto.Starred <=> has(r.dto.UID))
            /\ (r.op = "searchQueries" /\ ~r.filter.OnlyStarred)
                  => \A i \in 1..Len(r.dtos) :
                        r.dtos[i].Starred <=> has(r.dtos[i].UID)

\* C11: every DTO of a successful searchQueries with OnlyStarred = true has
\* Starred = true and is a query of the caller's (org, user) whose uid has a
\* star row; a query with no star row is never returned.
C11_OnlyStarredReturnsStarred ==
    \A p \in Procs :
        LET r == ret[p] IN
        (r.op = "searchQueries" /\ r.err = nil /\ r.filter.OnlyStarred)
            => \A i \in 1..Len(r.dtos) :
                  /\ r.dtos[i].Starred
                  /\ \E q \in query_history :
                        /\ q.uid = r.dtos[i].UID
                        /\ q.org_id = r.user.OrgId /\ q.created_by = r.user.UserId
                        /\ Stars(q.uid) # {}

\* The caller owns a starred and an unstarred query; only the starred one is
\* returned.
C11_Witness ==
    \E p \in Procs :
        LET r == ret[p] IN
        /\ r.op = "searchQueries" /\ r.err = nil /\ r.filter.OnlyStarred
        /\ Len(r.dtos) = 1
        /\ \E q \in query_history :
              /\ q.org_id = r.user.OrgId /\ q.created_by = r.user.UserId
              /\ q.datasource_uid \in r.filter.DatasourceUIDs
              /\ Stars(q.uid) = {}

\* C13: after a successful patchQueryComment(user, uid, comment), whatever the
\* comment (the empty string included), the stored row has that comment and so
\* has the returned DTO; the row's other fields, the other rows and the star
\* rows are as they were before the call.
C13_PatchPersistsComment ==
    \A p \in Procs :
        LET r == ret[p]
            before == OwnRows(r.preQ, r.user, r.UID)
        IN (r.op = "patchQueryComment" /\ r.err = nil)
            => /\ r.dto.Comment = r.Comment
               /\ query_history = (r.preQ \ before)
                                    \cup {[q EXCEPT !.comment = r.Comment] : q \in before}
               /\ query_history_star = r.preS

\* C14: a successful deleteQuery returns the id column of the row it deleted.
C14_DeleteReturnsRowId ==
    \A p \in Procs :
        LET r == ret[p] IN
        (r.op = "deleteQuery" /\ r.err = nil)
            => \E q \in OwnRows(r.preQ, r.user, r.UID) :
                  /\ q \notin query_history
                  /\ r.id = q.id

\* C15: a successful createQuery returns a DTO with a non-empty UID and
\* Starred = false; no two rows of query_history share a uid, and the UID a
\* create returns is the uid of no earlier row; a create whose generated UID
\* is the uid of a stored row adds no row.
C15_CreateUIDUnique ==
    /\ \A q1, q2 \in query_history : q1.uid = q2.uid => q1 = q2
    /\ \A p \in Procs :
        LET r == ret[p] IN
        r.op = "createQuery" =>
            IF r.err = nil
            THEN /\ r.dto.UID # "" /\ ~r.dto.Starred
                 /\ \A q \in r.preQ : q.uid # r.dto.UID
                 /\ \E q \in query_history :
                       q.uid = r.dto.UID /\ query_history = r.preQ \cup {q}
            ELSE query_history = r.preQ

\* A create whose generated UID collided with a stored row has returned.
C15_Witness ==
    \E p \in Procs :
        /\ ret[p].op = "createQuery" /\ ret[p].err = ErrUniqueViolation
        /\ ret[p].preQ # {} /\ query_history = ret[p].preQ
        /\ Cardinality(query_history) < MaxId

\* C19: every star row's user is the creator of the query of that uid, so a
\* query has at most one star row; a successful searchQueries returns each
\* query once, and reports Starred = true only when the caller's own star row
\* exists.
C19_StarOwnerIsCreator ==
    /\ \A k \in StarKeys :
          query_history_star[k] > 0
              => \E q \in query_history : q.uid = k[2] /\ q.created_by = k[1]
    /\ \A uid \in UIDs : Cardinality(Stars(uid)) <= 1
    /\ \A p \in Procs :
        LET r == ret[p] IN
        (r.op = "searchQueries" /\ r.err = nil)
            => /\ \A i, j \in 1..Len(r.dtos) : r.dtos[i].UID = r.dtos[j].UID => i = j
               /\ \A i \in 1..Len(r.dtos) :
                     r.dtos[i].Starred => r.preS[<<r.user.UserId, r.dtos[i].UID>>] > 0

\* C20: a starQuery and a deleteQuery of the owner for one stored uid, each in
\* its own transaction and overlapping in any way, no store statement failing:
\* once both have returned, it is not the case that the query row is gone
\* while a star row for its uid remains.
C20_NoStarWithoutQueryAfterRace ==
    \A p, o \in Procs :
        (/\ ret[p].op = "starQuery" /\ ret[o].op = "deleteQuery"
         /\ ret[p].injected = "" /\ ret[o].injected = "")
            => ~(/\ \A q \in query_history : q.uid # ret[o].UID
                 /\ Stars(ret[o].UID) # {})

\* The rows a search of the given user and filter matches, and the length of
\* the page the filter asks for.
Matching(Q, S, user, query) == JoinRows(Q, S, user, Normalize(query))
PageLen(n, query) ==
    LET f == Normalize(query)
        offset == f.Limit * (f.Page - 1)
    IN IF n <= offset THEN 0 ELSE IF n - offset < f.Limit THEN n - offset ELSE f.Limit

\* C12: against one store state and one filter, a successful searchQueries
\* returns its DTOs in non-decreasing CreatedAt order for time-asc and in
\* non-increasing order otherwise, page p has the length of offsets
\* Limit*(p-1) .. Limit*p of the matching rows, and two calls whose filters
\* differ only in Page return no DTO in common (rows of equal CreatedAt
\* included).
C12_SortedAndPagesDisjoint ==
    /\ \A p \in Procs :
        LET r == ret[p] IN
        (r.op = "searchQueries" /\ r.err = nil)
            => /\ \A i, j \in 1..Len(r.dtos) : i < j =>
                      IF Normalize(r.filter).Sort = "time-asc"
                      THEN r.dtos[i].CreatedAt <= r.dtos[j].CreatedAt
                      ELSE r.dtos[i].CreatedAt >= r.dtos[j].CreatedAt
               /\ Len(r.dtos) =
                      PageLen(Cardinality(Matching(r.preQ, r.preS, r.user, r.filter)),
                              r.filter)
    /\ \A p, o \in Procs :
        (/\ ret[p].op = "searchQueries" /\ ret[o].op = "searchQueries"
         /\ ret[p].err = nil /\ ret[o].err = nil
         /\ ret[p].user = ret[o].user
         /\ ret[p].preQ = ret[o].preQ /\ ret[p].preS = ret[o].preS
         /\ [ret[p].filter EXCEPT !.Page = 0] = [ret[o].filter EXCEPT !.Page = 0]
         /\ Normalize(ret[p].filter).Page # Normalize(ret[o].filter).Page)
            => \A i \in 1..Len(ret[p].dtos), j \in 1..Len(ret[o].dtos) :
                  ret[p].dtos[i] # ret[o].dtos[j]

\* What checkDashboardAndPanel is to return, by the first rule that applies.
FirstApplicableRule(dashboardUID, panelID, answer) ==
    IF dashboardUID = "" \/ panelID <= 0 THEN ErrDashboardOrPanelIdentifierNotSet
    ELSE IF answer.err # nil THEN answer.err
    ELSE IF ~answer.hasData THEN ErrDashboardCorrupt
    ELSE IF \A i \in 1..Len(answer.panels) : answer.panels[i] # panelID
         THEN ErrDashboardPanelNotFound
    ELSE nil

\* C16: for every request and store answer checkDashboardAndPanel returns what
\* the first applicable rule says: identifier-not-set, else the store's
\* not-found, else corrupt for a missing document (whether or not the panel
\* would be found), else panel-not-found, else nil.
C16_FirstApplicableRule ==
    dash.validated
        => dash.err = FirstApplicableRule(dash.dashboardUID, dash.panelID, dash.answer)

\* The document is missing and the identifiers are set: corrupt is returned.
C16_Witness ==
    /\ dash.validated /\ dash.err = ErrDashboardCorrupt
    /\ dash.dashboardUID # "" /\ dash.panelID > 0

\* C17: with an empty dashboardUID or a panelID <= 0 checkDashboardAndPanel
\* returns identifier-not-set and has asked the store nothing, whatever the
\* store would have answered.
C17_NoLookupWithoutIdentifiers ==
    (dash.validated /\ (dash.dashboardUID = "" \/ dash.panelID <= 0))
        => /\ dash.err = ErrDashboardOrPanelIdentifierNotSet
           /\ dash.lookups = 0

\* Identifier-not-set returned although the store holds the dashboard with
\* the panel asked for.
C17_Witness ==
    /\ dash.validated /\ dash.err = ErrDashboardOrPanelIdentifierNotSet
    /\ dash.lookups = 0
    /\ dash.answer.err = nil /\ dash.answer.hasData
    /\ PanelFound(dash.answer.panels, 1, dash.panelID)

\* C18: the Query Engine is invoked only after checkDashboardAndPanel has
\* returned nil for the request; when it has returned an error the engine is
\* not invoked and the error is what the caller gets.
C18_EngineOnlyAfterValidation ==
    /\ (dash.pc = "engine" \/ dash.engine > 0)
          => /\ dash.validated /\ dash.err = nil
             /\ FirstApplicableRule(dash.dashboardUID, dash.panelID, dash.answer) = nil
    /\ (dash.validated /\ dash.err # nil)
          => /\ dash.engine = 0 /\ dash.pc # "engine"
             /\ dash.pc = "done" => dash.response.error = dash.err

\* One request answered by the engine, and the validator had passed it.
C18_Witness ==
    /\ dash.pc = "done" /\ dash.engine = 1 /\ dash.validated /\ dash.err = nil
    /\ dash.response.code = 200

====
